---- MODULE Spec2Model ----
(***************************************************************************)
(* A model of the composition-analysis pipeline of rustpj:                 *)
(*   src/src/main.rs        main: the order of the steps of one run        *)
(*   src/src/get_sbom.rs    generate_sbom_from_lockfile and its helpers    *)
(*   src/src/scanner.rs     Scanner::new and Scanner::scan_lockfile        *)
(*                                                                         *)
(* Strings whose contents the code inspects character by character (the    *)
(* license strings, the severity labels) are sequences of one-character    *)
(* strings; strings the code only builds with format! and compares for     *)
(* equality (names, versions, purls) are TLA+ strings built with \o.       *)
(***************************************************************************)
EXTENDS Integers, Sequences, FiniteSets, TLC

VARIABLES
    pc,          \* position of main (src/src/main.rs)
    lockfile,    \* Some(discovery.lockfile), or None before discovery
    db,          \* the advisories stored under ./data/advisory-db
    db_store,    \* what Scanner::new meets at ./data/advisory-db
    scanner,     \* Some(the constructed Scanner), or None
    report,      \* Some(the VulnReport returned by scan_lockfile), or None
    sbom,        \* Some(the CycloneDxBom the SBOM builder built last), or None
    prev_sbom,   \* Some(the CycloneDxBom of the run before it), or None
    license_str, \* argument of the latest parse_license_expression call
    licenses,    \* its result
    sbom_args,   \* Some(what the latest generate_sbom_from_lockfile call met:
                 \* the `cargo metadata` run, the clock, whether output_path
                 \* can be written), or None
    sbom_file,   \* Some(content of ./output/sbom.json), or None
    report_file, \* Some(content of ./output/vuln_report.json), or None
    tmp_dir,     \* whether ./tmp exists
    result       \* what main returned

vars == <<pc, lockfile, db, db_store, scanner, report, sbom, prev_sbom,
          license_str, licenses, sbom_args, sbom_file, report_file, tmp_dir,
          result>>

(***************************************************************************)
(* Bounds of the model.                                                    *)
(***************************************************************************)
MaxPkgs == 2      \* longest lockfile of the scanner and SBOM specifications
MaxAdvs == 2      \* largest advisory database of the scanner specification
MaxLicLen == 6    \* longest license string given to parse_license_expression

\* Option<T>: None is the empty sequence and Some(x) the sequence holding x
None == <<>>
Some(x) == <<x>>
Unwrap(o) == o[1]

\* Result<T, E>
Ok(x) == [ok |-> TRUE, value |-> x]
Err(e) == [ok |-> FALSE, error |-> e]

(***************************************************************************)
(* semver::Version and semver::VersionReq (no pre-release or build parts). *)
(***************************************************************************)
V(ma, mi, pa) == [major |-> ma, minor |-> mi, patch |-> pa]
Cmp(op, ma, mi, pa) == [op |-> op, major |-> ma, minor |-> mi, patch |-> pa]

VersionLess(a, b) ==
    \/ a.major < b.major
    \/ a.major = b.major /\ a.minor < b.minor
    \/ a.major = b.major /\ a.minor = b.minor /\ a.patch < b.patch

SameVersion(v, c) ==
    v.major = c.major /\ v.minor = c.minor /\ v.patch = c.patch

\* semver: Comparator::matches, for full (major.minor.patch) comparators
ComparatorMatches(c, v) ==
    CASE c.op = "="  -> SameVersion(v, c)
      [] c.op = ">"  -> VersionLess(c, v)
      [] c.op = ">=" -> SameVersion(v, c) \/ VersionLess(c, v)
      [] c.op = "<"  -> VersionLess(v, c)
      [] c.op = "<=" -> SameVersion(v, c) \/ VersionLess(v, c)
      [] c.op = "^"  ->
            IF c.major > 0
            THEN v.major = c.major /\ (SameVersion(v, c) \/ VersionLess(c, v))
            ELSE IF c.minor > 0
            THEN v.major = 0 /\ v.minor = c.minor /\ v.patch >= c.patch
            ELSE SameVersion(v, c)

\* semver: VersionReq::matches: every comparator of the requirement matches
ReqMatches(req, v) == \A i \in 1..Len(req) : ComparatorMatches(req[i], v)

\* Display of a Version: "major.minor.patch"
VersionToString(v) ==
    ToString(v.major) \o "." \o ToString(v.minor) \o "." \o ToString(v.patch)

RECURSIVE Join(_, _)
\* [String]::join(sep)
Join(strs, sep) ==
    IF strs = <<>> THEN ""
    ELSE IF Len(strs) = 1 THEN strs[1]
    ELSE strs[1] \o sep \o Join(Tail(strs), sep)

\* Display of a VersionReq: its comparators joined by ", " ("*" when empty)
ReqToString(req) ==
    IF req = <<>> THEN "*"
    ELSE Join([i \in 1..Len(req) |-> req[i].op \o VersionToString(req[i])], ", ")

(***************************************************************************)
(* Characters: str::to_uppercase on the ASCII letters of the labels.       *)
(***************************************************************************)
Lower == <<"a","c","d","e","g","h","i","l","m","n","o","r","t","u","w">>
Upper == <<"A","C","D","E","G","H","I","L","M","N","O","R","T","U","W">>

UpperChar(c) ==
    IF \E i \in 1..Len(Lower) : Lower[i] = c
    THEN Upper[CHOOSE i \in 1..Len(Lower) : Lower[i] = c]
    ELSE c

\* Mutant of to_uppercase: the label is compared as it stands
to_uppercase_identity(s) == s

to_uppercase(s) == [i \in 1..Len(s) |-> UpperChar(s[i])]

\* cvss Severity::to_string, the labels "none" .. "critical"
SeverityLabels ==
    { <<"n","o","n","e">>, <<"l","o","w">>, <<"m","e","d","i","u","m">>,
      <<"h","i","g","h">>, <<"c","r","i","t","i","c","a","l">> }

(***************************************************************************)
(* src/src/scanner.rs                                                      *)
(* An advisory is [id, package, withdrawn, informational, patched,         *)
(* unaffected, cvss]: withdrawn and informational say whether the metadata *)
(* field is Some; patched and unaffected are sequences of VersionReq; cvss *)
(* is None or Some(the label of the CVSS vector's severity).               *)
(***************************************************************************)
SeverityCountsDefault ==
    [critical |-> 0, high |-> 0, medium |-> 0, low |-> 0, unknown |-> 0]

\* Mutant of Scanner_new: a repository whose advisories cannot be loaded
\* gives a Scanner over an empty database
Scanner_new_load_unchecked(store, advisories) ==
    IF store = "missing" THEN Err("Advisory DB path does not exist")
    ELSE IF store = "not_a_repo"
    THEN Err("failed to open advisory DB git repository")
    ELSE IF store = "unloadable" THEN Ok([db |-> <<>>])
    ELSE Ok([db |-> advisories])

\* Scanner::new; store is what is at db_path: "missing" (no such path),
\* "not_a_repo" (Repository::open fails), "unloadable"
\* (Database::load_from_repo fails) or "ok"
Scanner_new(store, advisories) ==
    IF store = "missing" THEN Err("Advisory DB path does not exist")
    ELSE IF store = "not_a_repo"
    THEN Err("failed to open advisory DB git repository")
    ELSE IF store = "unloadable" THEN Err("failed to load advisory database")
    ELSE Ok([db |-> advisories])

\* Mutant of Skipped: informational advisories are kept
SkippedWithdrawnOnly(adv) == adv.withdrawn

\* scan_lockfile, lines 89-93: the advisories the index skips
Skipped(adv) == adv.withdrawn \/ adv.informational

\* scan_lockfile, lines 88-98: by_package, keyed by the declared package name,
\* each list in the order of the database
BuildIndex(advisories) ==
    [n \in {advisories[i].package :
              i \in {j \in 1..Len(advisories) : ~Skipped(advisories[j])}} |->
        SelectSeq(advisories, LAMBDA a : ~Skipped(a) /\ a.package = n)]

\* by_package.get(pkg.name.as_str())
IndexGet(by_package, name) ==
    IF name \in DOMAIN by_package THEN Some(by_package[name]) ELSE None

\* Mutant of is_version_affected: the patched ranges are not consulted
is_version_affected_no_patched(version, advisory) ==
    ~\E i \in 1..Len(advisory.unaffected) :
        ReqMatches(advisory.unaffected[i], version)

\* Mutant of is_version_affected: the unaffected ranges are not consulted
is_version_affected_no_unaffected(version, advisory) ==
    ~\E i \in 1..Len(advisory.patched) :
        ReqMatches(advisory.patched[i], version)

\* Scanner::is_version_affected
is_version_affected(version, advisory) ==
    IF \E i \in 1..Len(advisory.patched) : ReqMatches(advisory.patched[i], version)
    THEN FALSE
    ELSE IF \E i \in 1..Len(advisory.unaffected) :
                ReqMatches(advisory.unaffected[i], version)
    THEN FALSE
    ELSE TRUE

\* Scanner::create_advisory_finding (description and references are copies
\* of the advisory's and are left out)
create_advisory_finding(advisory) ==
    [id |-> advisory.id,
     severity |-> advisory.cvss,
     unaffected_versions |->
        Join([i \in 1..Len(advisory.unaffected) |->
                 ReqToString(advisory.unaffected[i])], ", "),
     patched_versions |->
        IF advisory.patched # <<>>
        THEN Some(Join([i \in 1..Len(advisory.patched) |->
                           ReqToString(advisory.patched[i])], ", "))
        ELSE None]

\* Mutant of UpdateSeverity: a finding without severity increments nothing
UpdateSeverityNoElse(by_severity, severity) ==
    IF severity # None
    THEN LET sev == to_uppercase(Unwrap(severity)) IN
         CASE sev = <<"C","R","I","T","I","C","A","L">> ->
                [by_severity EXCEPT !.critical = @ + 1]
           [] sev = <<"H","I","G","H">> ->
                [by_severity EXCEPT !.high = @ + 1]
           [] sev = <<"M","E","D","I","U","M">> ->
                [by_severity EXCEPT !.medium = @ + 1]
           [] sev = <<"L","O","W">> ->
                [by_severity EXCEPT !.low = @ + 1]
           [] OTHER ->
                [by_severity EXCEPT !.unknown = @ + 1]
    ELSE by_severity

\* scan_lockfile, lines 109-119: the bucket a finding increments
UpdateSeverity(by_severity, severity) ==
    IF severity # None
    THEN LET sev == to_uppercase(Unwrap(severity)) IN
         CASE sev = <<"C","R","I","T","I","C","A","L">> ->
                [by_severity EXCEPT !.critical = @ + 1]
           [] sev = <<"H","I","G","H">> ->
                [by_severity EXCEPT !.high = @ + 1]
           [] sev = <<"M","E","D","I","U","M">> ->
                [by_severity EXCEPT !.medium = @ + 1]
           [] sev = <<"L","O","W">> ->
                [by_severity EXCEPT !.low = @ + 1]
           [] OTHER ->
                [by_severity EXCEPT !.unknown = @ + 1]
    ELSE [by_severity EXCEPT !.unknown = @ + 1]

RECURSIVE ScanAdvisories(_, _, _)
\* scan_lockfile, lines 104-123: the loop over a package's advisories;
\* st is [advisories_for_pkg, by_severity]
ScanAdvisories(version, advs, st) ==
    IF advs = <<>> THEN st
    ELSE LET advisory == Head(advs) IN
         IF is_version_affected(version, advisory)
         THEN LET advisory_find == create_advisory_finding(advisory) IN
              ScanAdvisories(version, Tail(advs),
                  [advisories_for_pkg |->
                      Append(st.advisories_for_pkg, advisory_find),
                   by_severity |->
                      UpdateSeverity(st.by_severity, advisory_find.severity)])
         ELSE ScanAdvisories(version, Tail(advs), st)

RECURSIVE ScanPackagesKeepsEmpty(_, _, _)
\* Mutant of ScanPackages: an entry is pushed for every package, findings or not
ScanPackagesKeepsEmpty(pkgs, by_package, st) ==
    IF pkgs = <<>> THEN st
    ELSE LET pkg == Head(pkgs)
             advs == IndexGet(by_package, pkg.name)
             one == IF advs # None
                    THEN ScanAdvisories(pkg.version, Unwrap(advs),
                            [advisories_for_pkg |-> <<>>,
                             by_severity |-> st.by_severity])
                    ELSE [advisories_for_pkg |-> <<>>,
                          by_severity |-> st.by_severity]
         IN  ScanPackagesKeepsEmpty(Tail(pkgs), by_package,
                [package_reports |->
                    Append(st.package_reports,
                            [package_name |-> pkg.name,
                             package_version |-> VersionToString(pkg.version),
                             advisories |-> one.advisories_for_pkg]),
                 by_severity |-> one.by_severity])

RECURSIVE ScanPackages(_, _, _)
\* scan_lockfile, lines 101-133: the loop over the lockfile's packages;
\* st is [package_reports, by_severity]
ScanPackages(pkgs, by_package, st) ==
    IF pkgs = <<>> THEN st
    ELSE LET pkg == Head(pkgs)
             advs == IndexGet(by_package, pkg.name)
             one == IF advs # None
                    THEN ScanAdvisories(pkg.version, Unwrap(advs),
                            [advisories_for_pkg |-> <<>>,
                             by_severity |-> st.by_severity])
                    ELSE [advisories_for_pkg |-> <<>>,
                          by_severity |-> st.by_severity]
         IN  ScanPackages(Tail(pkgs), by_package,
                [package_reports |->
                    IF one.advisories_for_pkg # <<>>
                    THEN Append(st.package_reports,
                            [package_name |-> pkg.name,
                             package_version |-> VersionToString(pkg.version),
                             advisories |-> one.advisories_for_pkg])
                    ELSE st.package_reports,
                 by_severity |-> one.by_severity])

\* Mutant of SumAdvisories: the package entries are counted, not their findings
SumAdvisoriesCountsEntries(package_reports) == Len(package_reports)

RECURSIVE SumAdvisories(_)
\* scan_lockfile, lines 136-139: package_reports.iter().map(len).sum()
SumAdvisories(package_reports) ==
    IF package_reports = <<>> THEN 0
    ELSE Len(Head(package_reports).advisories) + SumAdvisories(Tail(package_reports))

\* Mutant of TotalPackages: the distinct package names are counted
TotalPackagesByName(lf) ==
    Cardinality({lf.packages[i].name : i \in 1..Len(lf.packages)})

\* scan_lockfile, line 141: lockfile.packages.len()
TotalPackages(lf) == Len(lf.packages)

\* Scanner::scan_lockfile
scan_lockfile(self, lf) ==
    LET by_package == BuildIndex(self.db)
        st == ScanPackages(lf.packages, by_package,
                 [package_reports |-> <<>>, by_severity |-> SeverityCountsDefault])
    IN  [total_packages |-> TotalPackages(lf),
         packages |-> st.package_reports,
         summary |-> [total_vulnerabilities |-> SumAdvisories(st.package_reports),
                      by_severity |-> st.by_severity]]

(***************************************************************************)
(* src/src/get_sbom.rs                                                     *)
(* A package of the lockfile is [name, version, dependencies], the last    *)
(* the names of its direct dependencies (the code reads dep.name only).    *)
(***************************************************************************)
\* str::contains(pat)
Contains(s, pat) ==
    \E k \in 0..(Len(s) - Len(pat)) :
        \A i \in 1..Len(pat) : s[k + i] = pat[i]

\* Mutant of IsExpression: the operators are looked for without the spaces
IsExpressionSubstring(license) ==
    \/ Contains(license, <<"O", "R">>)
    \/ Contains(license, <<"A", "N", "D">>)
    \/ Contains(license, <<"/">>)

\* parse_license_expression, line 195
IsExpression(license) ==
    \/ Contains(license, <<" ", "O", "R", " ">>)
    \/ Contains(license, <<" ", "A", "N", "D", " ">>)
    \/ Contains(license, <<"/">>)

\* parse_license_expression
parse_license_expression(license) ==
    IF IsExpression(license)
    THEN << [license |-> None, expression |-> Some(license)] >>
    ELSE << [license |-> Some([id |-> Some(license), name |-> None]),
             expression |-> None] >>

\* Mutant of Purl: the version is left out
PurlNoVersion(name, version) == "pkg:cargo/" \o name

\* generate_sbom_from_lockfile, line 97
Purl(name, version) == "pkg:cargo/" \o name \o "@" \o version

\* generate_sbom_from_lockfile, line 98
BomRef(name, version) == name \o "@" \o version

\* license_cache.get(&(name, version))
CacheGet(license_cache, name, version) ==
    IF <<name, version>> \in DOMAIN license_cache
    THEN Some(license_cache[<<name, version>>])
    ELSE None

\* generate_sbom_from_lockfile, lines 101-112
MakeComponent(package, license_cache) ==
    LET version == VersionToString(package.version)
        name == package.name
        found == CacheGet(license_cache, name, version)
    IN  [component_type |-> "library",
         name |-> name,
         version |-> version,
         purl |-> Some(Purl(name, version)),
         bom_ref |-> Some(BomRef(name, version)),
         licenses |-> IF found # None
                      THEN Some(parse_license_expression(Unwrap(found)))
                      ELSE None]

\* Mutant of FindByName: the last package of the name is taken
FindByNameLast(packages, dep) ==
    IF \E i \in 1..Len(packages) : packages[i].name = dep
    THEN Some(packages[CHOOSE i \in 1..Len(packages) :
                  /\ packages[i].name = dep
                  /\ \A j \in (i + 1)..Len(packages) : packages[j].name # dep])
    ELSE None

\* lockfile.packages.iter().find(|p| p.name == dep), lines 119-122
FindByName(packages, dep) ==
    IF \E i \in 1..Len(packages) : packages[i].name = dep
    THEN Some(packages[CHOOSE i \in 1..Len(packages) :
                  /\ packages[i].name = dep
                  /\ \A j \in 1..(i - 1) : packages[j].name # dep])
    ELSE None

RECURSIVE ResolveDeps(_, _, _)
\* generate_sbom_from_lockfile, lines 115-127: depends_on
ResolveDeps(deps, packages, depends_on) ==
    IF deps = <<>> THEN depends_on
    ELSE LET dep == Head(deps)
             dep_pkg == FindByName(packages, dep)
         IN  ResolveDeps(Tail(deps), packages,
                IF dep_pkg # None
                THEN Append(depends_on,
                        BomRef(dep, VersionToString(Unwrap(dep_pkg).version)))
                ELSE depends_on)

\* generate_sbom_from_lockfile, lines 129-132
MakeDependency(package, packages) ==
    LET depends_on == ResolveDeps(package.dependencies, packages, <<>>)
    IN  [reference |-> BomRef(package.name, VersionToString(package.version)),
         depends_on |-> IF depends_on = <<>> THEN None ELSE Some(depends_on)]

\* generate_sbom_from_lockfile, lines 89-150: the CycloneDxBom
BuildBom(lf, license_cache, now) ==
    [bom_format |-> "CycloneDX",
     spec_version |-> "1.4",
     version |-> 1,
     metadata |-> [timestamp |-> now,
                   tools |-> << [vendor |-> "Custom",
                                 name |-> "cargo-sbom-generator",
                                 version |-> "1.0.0"] >>],
     components |-> [i \in 1..Len(lf.packages) |->
                        MakeComponent(lf.packages[i], license_cache)],
     dependencies |-> [i \in 1..Len(lf.packages) |->
                        MakeDependency(lf.packages[i], lf.packages)]]

\* fetch_all_licenses, lines 179-189: the map built from metadata["packages"],
\* a sequence of [name, version, license]; a later insert replaces an earlier
LicenseMap(packages) ==
    LET with == {i \in 1..Len(packages) : packages[i].license # None}
        last(key) == CHOOSE i \in with :
                        /\ <<packages[i].name, packages[i].version>> = key
                        /\ \A j \in with :
                              <<packages[j].name, packages[j].version>> = key
                              => j <= i
    IN  [key \in {<<packages[i].name, packages[i].version>> : i \in with} |->
            Unwrap(packages[last(key)].license)]

\* fetch_all_licenses; cargo is what running `cargo metadata` gives:
\* [spawned, success, stdout], stdout None when it is not JSON and else
\* Some(the packages array)
fetch_all_licenses(cargo) ==
    IF ~cargo.spawned THEN Err("io")
    ELSE IF ~cargo.success THEN Ok(<<>>)
    ELSE IF cargo.stdout = None THEN Err("json")
    ELSE Ok(LicenseMap(Unwrap(cargo.stdout)))

\* generate_sbom_from_lockfile: Ok(the bom written to output_path) or Err
generate_sbom_from_lockfile(lf, cargo, now, can_write) ==
    LET license_cache == fetch_all_licenses(cargo) IN
    IF ~license_cache.ok THEN license_cache
    ELSE IF ~can_write THEN Err("io")
    ELSE Ok(BuildBom(lf, license_cache.value, now))

(***************************************************************************)
(* The inputs the specifications draw from.                                *)
(***************************************************************************)
Names == {"a", "b"}
Versions == {V(1, 0, 0), V(2, 0, 0), V(2, 1, 0)}

GE2 == << Cmp(">=", 2, 0, 0) >>                        \* ">=2.0.0"
GE21 == << Cmp(">=", 2, 1, 0) >>                       \* ">=2.1.0"
Below2 == << Cmp(">", 0, 0, 0), Cmp("<", 2, 0, 0) >>   \* ">0.0.0, <2.0.0"

SeqsUpTo(S, n) == UNION {[1..k -> S] : k \in 0..n}

AdvisoryId(i) == "RUSTSEC-" \o ToString(i)

\* Advisories without their id, in three families.
\* Every combination of range lists (none, one, two requirements):
RangeShapes ==
    [package : Names, withdrawn : {FALSE}, informational : {FALSE},
     patched : { <<>>, <<GE2>> },
     unaffected : { <<>>, <<GE21>>, <<Below2, GE21>> },
     cvss : {None}]

\* Every marking, with and without a patched range:
MarkedShapes ==
    [package : {"a"},
     withdrawn : BOOLEAN, informational : {FALSE},
     patched : { <<>>, <<GE2>> }, unaffected : { <<>> },
     cvss : {None}]
    \cup
    [package : {"a"},
     withdrawn : {FALSE}, informational : {TRUE},
     patched : { <<>>, <<GE2>> }, unaffected : { <<>> },
     cvss : {None}]

\* Every severity:
SeverityShapes ==
    [package : {"a"}, withdrawn : {FALSE}, informational : {FALSE},
     patched : { <<>> }, unaffected : { <<GE21>> },
     cvss : {None} \cup {Some(l) : l \in SeverityLabels}]

\* the database gives its advisories distinct ids
WithIds(shapes) ==
    [i \in 1..Len(shapes) |->
        [id |-> AdvisoryId(i),
         package |-> shapes[i].package,
         withdrawn |-> shapes[i].withdrawn,
         informational |-> shapes[i].informational,
         patched |-> shapes[i].patched,
         unaffected |-> shapes[i].unaffected,
         cvss |-> shapes[i].cvss]]

Databases ==
    {WithIds(sh) : sh \in SeqsUpTo(RangeShapes, MaxAdvs)
                          \cup SeqsUpTo(MarkedShapes, MaxAdvs)
                          \cup SeqsUpTo(SeverityShapes, MaxAdvs)}

\* lockfiles whose packages declare no dependencies
FlatLockfiles ==
    {[packages |-> ps] :
        ps \in SeqsUpTo([name : Names, version : Versions, dependencies : {<<>>}],
                        MaxPkgs)}

(***************************************************************************)
(* main, src/src/main.rs, lines 39-41: the scan.                           *)
(***************************************************************************)
ScanLockfile ==
    /\ pc = "scan"
    /\ report' = Some(scan_lockfile(Unwrap(scanner), Unwrap(lockfile)))
    /\ pc' = "write_report"
    /\ UNCHANGED <<sbom_args, lockfile, db, db_store, scanner, sbom, prev_sbom,
                   license_str, licenses, sbom_file, report_file, tmp_dir, result>>

(***************************************************************************)
(* ScanSpec: Scanner::scan_lockfile applied to every lockfile and database *)
(* of the bounds, by a Scanner constructed over the database.              *)
(***************************************************************************)
ScanInit ==
    /\ pc = "scan"
    /\ lockfile \in {Some(lf) : lf \in FlatLockfiles}
    /\ db \in Databases
    /\ db_store = "ok"
    /\ scanner = Some([db |-> db])
    /\ report = None
    /\ sbom = None
    /\ prev_sbom = None
    /\ license_str = None
    /\ licenses = None
    /\ sbom_args = None
    /\ sbom_file = None
    /\ report_file = None
    /\ tmp_dir = TRUE
    /\ result = "running"

ScanNext == ScanLockfile

ScanSpec == ScanInit /\ [][ScanNext]_vars

(***************************************************************************)
(* Claims about Scanner::scan_lockfile, checked under ScanSpec.            *)
(***************************************************************************)
Scanned == report # None
Pkgs == Unwrap(lockfile).packages
Advs == Unwrap(scanner).db

PatchedMatch(pkg, adv) ==
    \E i \in 1..Len(adv.patched) : ReqMatches(adv.patched[i], pkg.version)
UnaffectedMatch(pkg, adv) ==
    \E i \in 1..Len(adv.unaffected) : ReqMatches(adv.unaffected[i], pkg.version)
Marked(adv) == adv.withdrawn \/ adv.informational

\* the report holds a finding of advisory adv in an entry of package pkg
HasFinding(r, pkg, adv) ==
    \E e \in 1..Len(r.packages) :
        /\ r.packages[e].package_name = pkg.name
        /\ r.packages[e].package_version = VersionToString(pkg.version)
        /\ \E f \in 1..Len(r.packages[e].advisories) :
              r.packages[e].advisories[f].id = adv.id

\* the findings of a report, as (entry, position) pairs
FindingSlots(r) ==
    UNION { {<<e, f>> : f \in 1..Len(r.packages[e].advisories)} :
              e \in 1..Len(r.packages) }

BucketSum(c) == c.critical + c.high + c.medium + c.low + c.unknown

\* C1: a package whose version matches a patched range of an indexed advisory
\* for its name gets no finding for that advisory, whatever the unaffected
\* ranges hold
C1_PatchedTakesPrecedence ==
    Scanned =>
        \A p \in 1..Len(Pkgs) : \A a \in 1..Len(Advs) :
            ( /\ ~Marked(Advs[a])
              /\ Advs[a].package = Pkgs[p].name
              /\ PatchedMatch(Pkgs[p], Advs[a]) )
            => ~HasFinding(Unwrap(report), Pkgs[p], Advs[a])

\* C1 witness: scanned, with a patched-range match whose advisory declares no
\* unaffected range, and one whose unaffected ranges do not match
C1_Witness ==
    /\ Scanned
    /\ \E p \in 1..Len(Pkgs) : \E a \in 1..Len(Advs) :
          /\ ~Marked(Advs[a]) /\ Advs[a].package = Pkgs[p].name
          /\ PatchedMatch(Pkgs[p], Advs[a])
          /\ Advs[a].unaffected = <<>>
    /\ \E p \in 1..Len(Pkgs) : \E a \in 1..Len(Advs) :
          /\ ~Marked(Advs[a]) /\ Advs[a].package = Pkgs[p].name
          /\ PatchedMatch(Pkgs[p], Advs[a])
          /\ Advs[a].unaffected # <<>>
          /\ ~UnaffectedMatch(Pkgs[p], Advs[a])

\* C2 as stated: a finding for (package, advisory) exactly when the names are
\* equal and the version matches no patched and no unaffected range
C2_Original ==
    Scanned =>
        \A p \in 1..Len(Pkgs) : \A a \in 1..Len(Advs) :
            HasFinding(Unwrap(report), Pkgs[p], Advs[a])
            <=> ( /\ Advs[a].package = Pkgs[p].name
                  /\ ~PatchedMatch(Pkgs[p], Advs[a])
                  /\ ~UnaffectedMatch(Pkgs[p], Advs[a]) )

\* C2 amended: a finding for (package, advisory) exactly when the advisory is
\* neither withdrawn nor informational, the names are equal and the version
\* matches no patched and no unaffected range
C2_FindingIff ==
    Scanned =>
        \A p \in 1..Len(Pkgs) : \A a \in 1..Len(Advs) :
            HasFinding(Unwrap(report), Pkgs[p], Advs[a])
            <=> ( /\ ~Marked(Advs[a])
                  /\ Advs[a].package = Pkgs[p].name
                  /\ ~PatchedMatch(Pkgs[p], Advs[a])
                  /\ ~UnaffectedMatch(Pkgs[p], Advs[a]) )

\* C2 witness: scanned; one package is reported for an advisory with ranges
\* none of which matches, another package is named by no advisory
C2_Witness ==
    /\ Scanned
    /\ \E p \in 1..Len(Pkgs) : \E a \in 1..Len(Advs) :
          /\ Advs[a].patched # <<>> /\ Advs[a].unaffected # <<>>
          /\ HasFinding(Unwrap(report), Pkgs[p], Advs[a])
    /\ \E p \in 1..Len(Pkgs) :
          \A a \in 1..Len(Advs) : Advs[a].package # Pkgs[p].name

\* C3: total_vulnerabilities is the number of findings of the entries
C3_TotalIsSumOfFindings ==
    Scanned =>
        Unwrap(report).summary.total_vulnerabilities
            = Cardinality(FindingSlots(Unwrap(report)))

\* C3 witness: two entries, one of them with two findings
C3_Witness ==
    /\ Scanned
    /\ Len(Unwrap(report).packages) = 2
    /\ Len(Unwrap(report).packages[1].advisories) = 2
    /\ Unwrap(report).summary.total_vulnerabilities >= 3

\* C4: the severity buckets add up to total_vulnerabilities
C4_BucketsSumToTotal ==
    Scanned =>
        BucketSum(Unwrap(report).summary.by_severity)
            = Unwrap(report).summary.total_vulnerabilities

\* C4 witness: findings in a named bucket and in unknown, without and with a label
C4_Witness ==
    /\ Scanned
    /\ Unwrap(report).summary.by_severity.critical >= 1
    /\ Unwrap(report).summary.by_severity.unknown >= 1
    /\ Unwrap(report).summary.total_vulnerabilities >= 3
    /\ \E a \in 1..Len(Advs) : Advs[a].cvss = None

\* C5: a withdrawn or informational advisory is in no list of the index, is
\* the advisory of no finding, and the buckets count only findings of the
\* other advisories
C5_MarkedNeverReported ==
    Scanned =>
        LET r == Unwrap(report)
            by_package == BuildIndex(Advs)
            live == {Advs[a].id : a \in {i \in 1..Len(Advs) : ~Marked(Advs[i])}}
        IN  /\ \A a \in 1..Len(Advs) :
                  Marked(Advs[a]) =>
                    /\ \A n \in DOMAIN by_package :
                          \A k \in 1..Len(by_package[n]) :
                              by_package[n][k].id # Advs[a].id
                    /\ \A p \in 1..Len(Pkgs) : ~HasFinding(r, Pkgs[p], Advs[a])
                    /\ \A sl \in FindingSlots(r) :
                          r.packages[sl[1]].advisories[sl[2]].id # Advs[a].id
            /\ BucketSum(r.summary.by_severity)
                  = Cardinality({sl \in FindingSlots(r) :
                        r.packages[sl[1]].advisories[sl[2]].id \in live})

\* C5 witness: scanned, with a withdrawn and an informational advisory, each
\* naming a package of the lockfile whose version matches none of its ranges
C5_Witness ==
    /\ Scanned
    /\ \E p \in 1..Len(Pkgs) : \E a \in 1..Len(Advs) :
          /\ Advs[a].withdrawn /\ Advs[a].package = Pkgs[p].name
          /\ ~PatchedMatch(Pkgs[p], Advs[a]) /\ ~UnaffectedMatch(Pkgs[p], Advs[a])
    /\ \E p \in 1..Len(Pkgs) : \E a \in 1..Len(Advs) :
          /\ Advs[a].informational /\ Advs[a].package = Pkgs[p].name
          /\ ~PatchedMatch(Pkgs[p], Advs[a]) /\ ~UnaffectedMatch(Pkgs[p], Advs[a])

\* C6: total_packages is the length of the lockfile in every scan; with no
\* advisory in the database the report has no entry, no vulnerability and
\* empty buckets
C6_EmptyDatabase ==
    Scanned =>
        LET r == Unwrap(report) IN
        /\ r.total_packages = Len(Pkgs)
        /\ Advs = <<>> =>
              /\ r.packages = <<>>
              /\ r.summary.total_vulnerabilities = 0
              /\ r.summary.by_severity = SeverityCountsDefault

\* C6 witness: an empty database scanned against a lockfile of two entries of
\* one name
C6_Witness ==
    /\ Scanned
    /\ Advs = <<>>
    /\ Len(Pkgs) = 2
    /\ Pkgs[1].name = Pkgs[2].name

(***************************************************************************)
(* Inputs of the SBOM builder.                                             *)
(***************************************************************************)
SbomVersions == {V(1, 0, 0), V(2, 0, 0)}
DepLists == { <<>>, <<"a">>, <<"b">>, <<"b", "a">> }

SbomLockfiles ==
    {[packages |-> ps] :
        ps \in SeqsUpTo([name : Names, version : SbomVersions,
                         dependencies : DepLists], MaxPkgs)}

MIT == <<"M", "I", "T">>
DualLicense == <<"M", "I", "T", " ", "O", "R", " ", "I", "S", "C">>

\* what `cargo metadata` can give: not started, failed, output that is not
\* JSON, and three package arrays
CargoRuns ==
    { [spawned |-> FALSE, success |-> FALSE, stdout |-> None],
      [spawned |-> TRUE, success |-> FALSE, stdout |-> None],
      [spawned |-> TRUE, success |-> TRUE, stdout |-> None],
      [spawned |-> TRUE, success |-> TRUE, stdout |-> Some(<<>>)],
      [spawned |-> TRUE, success |-> TRUE, stdout |->
          Some(<< [name |-> "a", version |-> "1.0.0", license |-> Some(MIT)],
                  [name |-> "b", version |-> "2.0.0", license |-> None] >>)],
      [spawned |-> TRUE, success |-> TRUE, stdout |->
          Some(<< [name |-> "a", version |-> "1.0.0", license |-> Some(MIT)],
                  [name |-> "b", version |-> "2.0.0", license |-> Some(MIT)],
                  [name |-> "a", version |-> "1.0.0",
                   license |-> Some(DualLicense)] >>)] }

\* chrono::Utc::now().to_rfc3339()
Timestamps == {"2025-01-01T00:00:00+00:00", "2025-01-02T00:00:00+00:00"}

(***************************************************************************)
(* SbomSpec: generate_sbom_from_lockfile run up to twice on one lockfile,  *)
(* each run with its own `cargo metadata` outcome and clock.               *)
(***************************************************************************)
SbomRun ==
    /\ pc = "generate_sbom"
    /\ prev_sbom = None
    /\ \E cargo \in CargoRuns, now \in Timestamps, can_write \in BOOLEAN :
          LET res == generate_sbom_from_lockfile(Unwrap(lockfile), cargo, now,
                                                can_write)
          IN  /\ res.ok
              /\ sbom_args' = Some([cargo |-> cargo, now |-> now,
                                    can_write |-> can_write])
              /\ sbom' = Some(res.value)
              /\ prev_sbom' = sbom
              /\ sbom_file' = Some(res.value)
    /\ UNCHANGED <<pc, lockfile, db, db_store, scanner, report,
                   license_str, licenses, report_file, tmp_dir, result>>

SbomInit ==
    /\ pc = "generate_sbom"
    /\ lockfile \in {Some(lf) : lf \in SbomLockfiles}
    /\ db = <<>>
    /\ db_store = "ok"
    /\ scanner = None
    /\ report = None
    /\ sbom = None
    /\ prev_sbom = None
    /\ license_str = None
    /\ licenses = None
    /\ sbom_args = None
    /\ sbom_file = None
    /\ report_file = None
    /\ tmp_dir = TRUE
    /\ result = "running"

SbomNext == SbomRun

SbomSpec == SbomInit /\ [][SbomNext]_vars

(***************************************************************************)
(* LicenseSpec: parse_license_expression applied to every string of the    *)
(* bound over LicenseChars.                                                *)
(***************************************************************************)
LicenseChars == {"A", "N", "D", "O", "R", " ", "/"}

ParseLicense ==
    /\ license_str # None
    /\ licenses = None
    /\ sbom_args = None
    /\ licenses' = Some(parse_license_expression(Unwrap(license_str)))
    /\ UNCHANGED <<sbom_args, pc, lockfile, db, db_store, scanner, report,
                   sbom, prev_sbom, license_str, sbom_file, report_file, tmp_dir, result>>

LicenseInit ==
    /\ pc = "generate_sbom"
    /\ lockfile = None
    /\ db = <<>>
    /\ db_store = "ok"
    /\ scanner = None
    /\ report = None
    /\ sbom = None
    /\ prev_sbom = None
    /\ license_str \in {Some(l) : l \in SeqsUpTo(LicenseChars, MaxLicLen)}
    /\ licenses = None
    /\ sbom_args = None
    /\ sbom_file = None
    /\ report_file = None
    /\ tmp_dir = TRUE
    /\ result = "running"

LicenseNext == ParseLicense

LicenseSpec == LicenseInit /\ [][LicenseNext]_vars

(***************************************************************************)
(* Spec: one run of main, src/src/main.rs.                                 *)
(***************************************************************************)
ScenarioLockfile ==
    [packages |-> << [name |-> "a", version |-> V(1, 0, 0),
                      dependencies |-> <<"b">>],
                     [name |-> "b", version |-> V(2, 0, 0),
                      dependencies |-> <<>>] >>]

MainLockfiles ==
    { [packages |-> <<>>],
      ScenarioLockfile,
      [packages |-> << [name |-> "b", version |-> V(2, 1, 0),
                        dependencies |-> <<"a">>] >>] }

MainDatabases ==
    { <<>>,
      WithIds(<< [package |-> "b", withdrawn |-> FALSE, informational |-> FALSE,
                  patched |-> <<>>, unaffected |-> <<GE21>>, cvss |-> None] >>),
      WithIds(<< [package |-> "b", withdrawn |-> FALSE, informational |-> FALSE,
                  patched |-> <<GE2>>, unaffected |-> <<>>,
                  cvss |-> Some(<<"h","i","g","h">>)],
                 [package |-> "a", withdrawn |-> TRUE, informational |-> FALSE,
                  patched |-> <<>>, unaffected |-> <<>>, cvss |-> None] >>) }

Fail ==
    /\ pc' = "failed"
    /\ result' = "err"

\* main, lines 15-20
CheckArgs ==
    /\ pc = "args"
    /\ \E argc \in {1, 2, 3} :
          IF argc # 2
          THEN pc' = "exited" /\ result' = "exit1"
          ELSE pc' = "get_lockfile" /\ result' = result
    /\ UNCHANGED <<sbom_args, lockfile, db, db_store, scanner, report, sbom,
                   prev_sbom, license_str, licenses, sbom_file, report_file, tmp_dir>>

\* get_lockfile, src/src/get_lockfile.rs; found is what the archive gives:
\* "remove_failed", "create_failed" (./tmp cannot be cleaned or made),
\* "extract_failed", "no_project", "generate_failed", or "lockfile"
get_lockfile(found, lf, tmp_before) ==
    IF tmp_before /\ found = "remove_failed"
    THEN [res |-> Err("io"), tmp |-> TRUE]
    ELSE IF found = "create_failed"
    THEN [res |-> Err("io"), tmp |-> FALSE]
    ELSE IF found \in {"extract_failed", "no_project", "generate_failed"}
    THEN [res |-> Err(found), tmp |-> TRUE]
    ELSE [res |-> Ok(lf), tmp |-> TRUE]

\* main, line 24
GetLockfile ==
    /\ pc = "get_lockfile"
    /\ \E found \in {"remove_failed", "create_failed", "extract_failed",
                     "no_project", "generate_failed", "lockfile"},
          lf \in MainLockfiles :
          LET got == get_lockfile(found, lf, tmp_dir) IN
          /\ found = "remove_failed" => tmp_dir
          /\ tmp_dir' = got.tmp
          /\ IF got.res.ok
             THEN /\ lockfile' = Some(got.res.value)
                  /\ pc' = "create_output"
                  /\ result' = result
             ELSE /\ lockfile' = lockfile
                  /\ Fail
    /\ UNCHANGED <<sbom_args, db, db_store, scanner, report, sbom, prev_sbom,
                   license_str, licenses, sbom_file, report_file>>

\* main, lines 28-29
CreateOutput ==
    /\ pc = "create_output"
    /\ \E created \in BOOLEAN :
          IF created THEN pc' = "generate_sbom" /\ result' = result ELSE Fail
    /\ UNCHANGED <<sbom_args, lockfile, db, db_store, scanner, report, sbom,
                   prev_sbom, license_str, licenses, sbom_file, report_file, tmp_dir>>

\* main, lines 32-33
GenerateSbom ==
    /\ pc = "generate_sbom"
    /\ \E cargo \in CargoRuns, now \in Timestamps, can_write \in BOOLEAN :
          LET res == generate_sbom_from_lockfile(Unwrap(lockfile), cargo, now,
                                                can_write)
          IN  /\ sbom_args' = Some([cargo |-> cargo, now |-> now,
                                    can_write |-> can_write])
              /\ IF res.ok
                 THEN /\ sbom' = Some(res.value)
                      /\ sbom_file' = Some(res.value)
                      /\ pc' = "scanner_new"
                      /\ result' = result
                 ELSE /\ UNCHANGED <<sbom, sbom_file>>
                      /\ Fail
    /\ UNCHANGED <<lockfile, db, db_store, scanner, report, prev_sbom,
                   license_str, licenses, report_file, tmp_dir>>

\* main, lines 36-37
ScannerNew ==
    /\ pc = "scanner_new"
    /\ LET res == Scanner_new(db_store, db) IN
          IF res.ok
          THEN /\ scanner' = Some(res.value)
               /\ pc' = "scan"
               /\ result' = result
          ELSE /\ scanner' = scanner
               /\ Fail
    /\ UNCHANGED <<sbom_args, lockfile, db, db_store, report, sbom, prev_sbom,
                   license_str, licenses, sbom_file, report_file, tmp_dir>>

\* main, lines 44-48
WriteReport ==
    /\ pc = "write_report"
    /\ \E written \in BOOLEAN :
          IF written
          THEN /\ report_file' = report
               /\ pc' = "cleanup"
               /\ result' = result
          ELSE /\ report_file' = report_file
               /\ Fail
    /\ UNCHANGED <<sbom_args, lockfile, db, db_store, scanner, report, sbom,
                   prev_sbom, license_str, licenses, sbom_file, tmp_dir>>

\* Mutant of Cleanup: a failed removal of ./tmp fails the run
CleanupFailsOnError ==
    /\ pc = "cleanup"
    /\ \E removed \in BOOLEAN :
          IF removed
          THEN tmp_dir' = FALSE /\ pc' = "done" /\ result' = "ok"
          ELSE tmp_dir' = tmp_dir /\ Fail
    /\ UNCHANGED <<sbom_args, lockfile, db, db_store, scanner, report, sbom,
                   prev_sbom, license_str, licenses, sbom_file, report_file>>

\* main, lines 66-73
Cleanup ==
    /\ pc = "cleanup"
    /\ \E removed \in BOOLEAN :
          tmp_dir' = IF removed THEN FALSE ELSE tmp_dir
    /\ pc' = "done"
    /\ result' = "ok"
    /\ UNCHANGED <<sbom_args, lockfile, db, db_store, scanner, report, sbom,
                   prev_sbom, license_str, licenses, sbom_file, report_file>>

Init ==
    /\ pc = "args"
    /\ lockfile = None
    /\ db_store \in {"missing", "not_a_repo", "unloadable", "ok"}
    /\ db \in MainDatabases
    /\ scanner = None
    /\ report = None
    /\ sbom = None
    /\ prev_sbom = None
    /\ license_str = None
    /\ licenses = None
    /\ sbom_args = None
    /\ sbom_file = None
    /\ report_file = None
    /\ tmp_dir \in BOOLEAN
    /\ result = "running"

Next ==
    \/ CheckArgs
    \/ GetLockfile
    \/ CreateOutput
    \/ GenerateSbom
    \/ ScannerNew
    \/ ScanLockfile
    \/ WriteReport
    \/ Cleanup

Spec == Init /\ [][Next]_vars

(***************************************************************************)
(* Claim about Scanner::new and its use in main, checked under Spec.       *)
(***************************************************************************)
\* C7: when the advisory database path is missing or cannot be opened or
\* loaded, no Scanner is constructed, main never reaches the scan or any
\* later step, and no vulnerability report is returned or written
C7_NoScannerNoReport ==
    db_store # "ok" =>
        /\ scanner = None
        /\ report = None
        /\ report_file = None
        /\ pc \notin {"scan", "write_report", "cleanup", "done"}
        /\ result # "ok"
        /\ (sbom_file # None /\ pc # "scanner_new" => pc = "failed" /\ result = "err")

\* C7 witness: main has failed after the SBOM was written, with a database
\* that exists but cannot be loaded
C7_Witness ==
    /\ db_store = "unloadable"
    /\ pc = "failed"
    /\ sbom_file # None
    /\ report_file = None

(***************************************************************************)
(* Claims about generate_sbom_from_lockfile, checked under SbomSpec.       *)
(***************************************************************************)
Built == sbom # None
SbomPkgs == Unwrap(lockfile).packages

Purls(bom) == [i \in 1..Len(bom.components) |-> bom.components[i].purl]
BomRefs(bom) == [i \in 1..Len(bom.components) |-> bom.components[i].bom_ref]

\* C8: one component and one dependency record per package, in lockfile
\* order, with purl "pkg:cargo/<name>@<version>" and bom-ref
\* "<name>@<version>"; two runs give the same purls and bom-refs
C8_ComponentsAndIdentifiers ==
    Built =>
        LET bom == Unwrap(sbom) IN
        /\ Len(bom.components) = Len(SbomPkgs)
        /\ Len(bom.dependencies) = Len(SbomPkgs)
        /\ \A i \in 1..Len(SbomPkgs) :
              LET n == SbomPkgs[i].name
                  v == VersionToString(SbomPkgs[i].version)
              IN  /\ bom.components[i].name = n
                  /\ bom.components[i].version = v
                  /\ bom.components[i].purl = Some("pkg:cargo/" \o n \o "@" \o v)
                  /\ bom.components[i].bom_ref = Some(n \o "@" \o v)
                  /\ bom.dependencies[i].reference = n \o "@" \o v
        /\ prev_sbom # None =>
              /\ Purls(bom) = Purls(Unwrap(prev_sbom))
              /\ BomRefs(bom) = BomRefs(Unwrap(prev_sbom))

\* C8 witness: two runs on a lockfile of two packages that differ in the
\* time of the run and in the licenses of a component
C8_Witness ==
    /\ Built
    /\ prev_sbom # None
    /\ Len(SbomPkgs) = 2
    /\ Unwrap(sbom).metadata.timestamp # Unwrap(prev_sbom).metadata.timestamp
    /\ \E i \in 1..Len(SbomPkgs) :
          /\ Unwrap(sbom).components[i].licenses # None
          /\ Unwrap(prev_sbom).components[i].licenses = None

\* the dependency names of a package that name a package of the lockfile
Resolvable(pkgs, deps) ==
    SelectSeq(deps, LAMBDA d : \E j \in 1..Len(pkgs) : pkgs[j].name = d)

\* the first position of a package of that name
FirstNamed(pkgs, d) ==
    CHOOSE j \in 1..Len(pkgs) :
        pkgs[j].name = d /\ \A k \in 1..Len(pkgs) : pkgs[k].name = d => j <= k

\* C10: dependsOn lists, for the dependency names that name a package of the
\* lockfile, "<name>@<version>" of the first such package, each the bom-ref
\* of a component; it is absent exactly when no name resolves, never empty
C10_DependsOnResolved ==
    Built =>
        LET bom == Unwrap(sbom) IN
        \A i \in 1..Len(SbomPkgs) :
            LET names == Resolvable(SbomPkgs, SbomPkgs[i].dependencies)
                expected == [k \in 1..Len(names) |->
                    names[k] \o "@" \o
                    VersionToString(SbomPkgs[FirstNamed(SbomPkgs, names[k])].version)]
                depends_on == bom.dependencies[i].depends_on
            IN  /\ depends_on # Some(<<>>)
                /\ (depends_on = None) <=> (names = <<>>)
                /\ depends_on # None =>
                      /\ Unwrap(depends_on) = expected
                      /\ \A k \in 1..Len(Unwrap(depends_on)) :
                            \E c \in 1..Len(bom.components) :
                                bom.components[c].bom_ref
                                    = Some(Unwrap(depends_on)[k])

\* C10 witness: a package depends on a name held by two packages of different
\* versions and on a name the lockfile lacks; another package's only
\* dependency is unresolved and its dependsOn is absent
C10_Witness ==
    /\ Built
    /\ Len(SbomPkgs) = 2
    /\ SbomPkgs[1].name = SbomPkgs[2].name
    /\ SbomPkgs[1].version # SbomPkgs[2].version
    /\ \E i \in 1..2 :
          /\ Len(SbomPkgs[i].dependencies) = 2
          /\ Unwrap(sbom).dependencies[i].depends_on # None
          /\ Len(Unwrap(Unwrap(sbom).dependencies[i].depends_on)) = 1
    /\ \E i \in 1..2 :
          /\ SbomPkgs[i].dependencies # <<>>
          /\ Unwrap(sbom).dependencies[i].depends_on = None

(***************************************************************************)
(* Claim about parse_license_expression, checked under LicenseSpec.        *)
(***************************************************************************)
Parsed == licenses # None

ExpressionShape(l) == << [license |-> None, expression |-> Some(l)] >>
IdShape(l) ==
    << [license |-> Some([id |-> Some(l), name |-> None]), expression |-> None] >>

\* w is a whole word of s: a maximal run of s without a space that equals w
HasWord(s, w) ==
    \E i \in 1..Len(s) :
        /\ i + Len(w) - 1 <= Len(s)
        /\ SubSeq(s, i, i + Len(w) - 1) = w
        /\ (i = 1 \/ s[i - 1] = " ")
        /\ (i + Len(w) - 1 = Len(s) \/ s[i + Len(w)] = " ")

\* w occurs in s with a space right before it and a space right after it
HasSpacedWord(s, w) ==
    \E i \in 2..Len(s) :
        /\ i + Len(w) <= Len(s)
        /\ SubSeq(s, i, i + Len(w) - 1) = w
        /\ s[i - 1] = " "
        /\ s[i + Len(w)] = " "

HasSlash(s) == \E i \in 1..Len(s) : s[i] = "/"

\* C9 as stated: a string with OR or AND as a whole word, or with a '/',
\* yields one License holding the string as expression; any other string
\* yields one License holding it as license.id
C9_Original ==
    Parsed =>
        LET l == Unwrap(license_str) IN
        Unwrap(licenses) =
            IF HasWord(l, <<"O", "R">>) \/ HasWord(l, <<"A", "N", "D">>)
               \/ HasSlash(l)
            THEN ExpressionShape(l)
            ELSE IdShape(l)

\* C9 amended: a string with OR or AND between two space characters, or with
\* a '/', yields one License holding the string as expression; any other
\* string yields one License holding it as license.id
C9_Classification ==
    Parsed =>
        LET l == Unwrap(license_str) IN
        Unwrap(licenses) =
            IF HasSpacedWord(l, <<"O", "R">>) \/ HasSpacedWord(l, <<"A", "N", "D">>)
               \/ HasSlash(l)
            THEN ExpressionShape(l)
            ELSE IdShape(l)

\* C9 witness: "D OR A" has been classified as an expression
C9_Witness ==
    /\ Parsed
    /\ license_str = Some(<<"D", " ", "O", "R", " ", "A">>)
    /\ Unwrap(licenses) = ExpressionShape(<<"D", " ", "O", "R", " ", "A">>)

(***************************************************************************)
(* Claim about the license metadata source, checked under Spec.            *)
(***************************************************************************)
\* the `cargo metadata` run failed: not started, unsuccessful exit, or output
\* that is not JSON
SourceFailed(cargo) ==
    ~cargo.spawned \/ ~cargo.success \/ cargo.stdout = None

\* the run's output holds a license for the package
HasLicenseEntry(cargo, pkg) ==
    /\ ~SourceFailed(cargo)
    /\ \E k \in 1..Len(Unwrap(cargo.stdout)) :
          /\ Unwrap(cargo.stdout)[k].name = pkg.name
          /\ Unwrap(cargo.stdout)[k].version = VersionToString(pkg.version)
          /\ Unwrap(cargo.stdout)[k].license # None

\* C11: whatever the license metadata source does, when output_path can be
\* written generate_sbom_from_lockfile returns Ok, the SBOM is written with
\* one component per package and main goes on to Scanner::new; a component
\* has a licenses field exactly when the source gave its package a license,
\* so none has one when the source failed
C11_SourceFailureDegrades ==
    (sbom_args # None /\ Unwrap(sbom_args).can_write) =>
        /\ pc # "generate_sbom"
        /\ sbom_file # None
        /\ Len(Unwrap(sbom_file).components) = Len(Unwrap(lockfile).packages)
        /\ \A i \in 1..Len(Unwrap(lockfile).packages) :
              (Unwrap(sbom_file).components[i].licenses # None)
              <=> HasLicenseEntry(Unwrap(sbom_args).cargo,
                                  Unwrap(lockfile).packages[i])
        /\ (pc = "failed" => scanner # None \/ db_store # "ok")

(***************************************************************************)
(* Claims about the entries and the severity buckets of the report,        *)
(* checked under ScanSpec.                                                 *)
(***************************************************************************)
\* the ids of the advisories that affect a package entry, in database order
AffectingIds(pkg) ==
    LET affects(adv) == /\ ~Marked(adv)
                        /\ adv.package = pkg.name
                        /\ ~PatchedMatch(pkg, adv)
                        /\ ~UnaffectedMatch(pkg, adv)
        sel == SelectSeq(Advs, affects)
    IN  [i \in 1..Len(sel) |-> sel[i].id]

\* the package entries with a finding, in lockfile order, each with its own
\* name, version and finding ids
AffectedEntries ==
    LET affected(pkg) == AffectingIds(pkg) # <<>>
        sel == SelectSeq(Pkgs, affected)
    IN  [i \in 1..Len(sel) |->
            [package_name |-> sel[i].name,
             package_version |-> VersionToString(sel[i].version),
             ids |-> AffectingIds(sel[i])]]

\* the entries of a report, each with the ids of its findings
ReportEntries(r) ==
    [e \in 1..Len(r.packages) |->
        [package_name |-> r.packages[e].package_name,
         package_version |-> r.packages[e].package_version,
         ids |-> [f \in 1..Len(r.packages[e].advisories) |->
                     r.packages[e].advisories[f].id]]]

\* C12: report.packages holds exactly one entry for each lockfile package
\* entry with at least one finding and none for the others, in lockfile
\* order, each with that entry's own name and version and only the findings
\* of that version; no entry has an empty advisories list
C12_OneEntryPerAffectedPackage ==
    Scanned =>
        LET r == Unwrap(report) IN
        /\ ReportEntries(r) = AffectedEntries
        /\ \A e \in 1..Len(r.packages) : r.packages[e].advisories # <<>>

\* two entries of one name and different versions, only the second reported
C12_Witness ==
    /\ Scanned
    /\ Len(Pkgs) = 2
    /\ Pkgs[1].name = Pkgs[2].name
    /\ ~SameVersion(Pkgs[1].version, Pkgs[2].version)
    /\ Len(Unwrap(report).packages) = 1
    /\ Unwrap(report).packages[1].package_version
           = VersionToString(Pkgs[2].version)

FindingAt(r, slot) == r.packages[slot[1]].advisories[slot[2]]

\* the number of findings of a report whose severity is in a set
SeverityCount(r, severities) ==
    Cardinality({slot \in FindingSlots(r) :
                    FindingAt(r, slot).severity \in severities})

NamedSeverities ==
    { Some(<<"c","r","i","t","i","c","a","l">>), Some(<<"h","i","g","h">>),
      Some(<<"m","e","d","i","u","m">>), Some(<<"l","o","w">>) }

\* C13: every finding carries its advisory's severity label (None without
\* CVSS data) and increments one bucket: critical, high, medium or low for
\* the label of that name, unknown for no severity and for any other label;
\* the scan returns a report whatever the severities are
C13_BucketBySeverity ==
    /\ pc # "scan" => Scanned
    /\ Scanned =>
        LET r == Unwrap(report)
            c == r.summary.by_severity
        IN  /\ \A slot \in FindingSlots(r) : \E a \in 1..Len(Advs) :
                  /\ Advs[a].id = FindingAt(r, slot).id
                  /\ Advs[a].cvss = FindingAt(r, slot).severity
            /\ c.critical = SeverityCount(r, {Some(<<"c","r","i","t","i","c","a","l">>)})
            /\ c.high = SeverityCount(r, {Some(<<"h","i","g","h">>)})
            /\ c.medium = SeverityCount(r, {Some(<<"m","e","d","i","u","m">>)})
            /\ c.low = SeverityCount(r, {Some(<<"l","o","w">>)})
            /\ c.unknown = Cardinality({slot \in FindingSlots(r) :
                              FindingAt(r, slot).severity \notin NamedSeverities})

\* a finding labelled critical and a finding without severity in one report
C13_Witness ==
    /\ Scanned
    /\ \E s1, s2 \in FindingSlots(Unwrap(report)) :
          /\ FindingAt(Unwrap(report), s1).severity = None
          /\ FindingAt(Unwrap(report), s2).severity
                 = Some(<<"c","r","i","t","i","c","a","l">>)
    /\ Unwrap(report).summary.by_severity.critical >= 1
    /\ Unwrap(report).summary.by_severity.unknown >= 1

(***************************************************************************)
(* Claim about the order of main's steps, checked under Spec.              *)
(***************************************************************************)
\* the step main takes after each step that succeeds
NextStep ==
    [args |-> "get_lockfile", get_lockfile |-> "create_output",
     create_output |-> "generate_sbom", generate_sbom |-> "scanner_new",
     scanner_new |-> "scan", scan |-> "write_report",
     write_report |-> "cleanup", cleanup |-> "done"]

\* one step of main keeps the order: each step is followed by the next one
\* or ends the run, and each result is produced at its own step, after the
\* results of the steps before it
OrderedStep ==
    /\ pc \in DOMAIN NextStep
    /\ pc' \in {NextStep[pc], "failed", "exited"}
    /\ pc' = "exited" => pc = "args"
    /\ lockfile' # lockfile => pc = "get_lockfile" /\ lockfile' # None
    /\ sbom_file' # sbom_file =>
          pc = "generate_sbom" /\ lockfile # None /\ sbom_file' # None
    /\ scanner' # scanner =>
          pc = "scanner_new" /\ sbom_file # None /\ scanner' # None
    /\ report' # report => pc = "scan" /\ scanner # None /\ report' # None
    /\ report_file' # report_file =>
          /\ pc = "write_report"
          /\ sbom_file # None
          /\ report # None
          /\ report_file' = report
    /\ pc' = "cleanup" => sbom_file # None /\ report_file' # None
    \* a failure to remove ./tmp is only a warning
    /\ pc = "cleanup" => pc' = "done" /\ result' = "ok"
    /\ result' = "ok" => pc = "cleanup"

\* ./tmp is removed only after both documents are written, and a failure
\* returns with the ./tmp it met still in place
TmpOnlyRemovedAtEnd ==
    /\ (tmp_dir /\ ~tmp_dir') =>
          pc = "cleanup" /\ sbom_file # None /\ report_file # None
    /\ (pc' = "failed" /\ tmp_dir) => tmp_dir'

\* as TmpOnlyRemovedAtEnd, but lockfile discovery may remove a ./tmp left by
\* an earlier run and fail before it has made a new one
TmpRemovedAtEndOrByDiscovery ==
    /\ (tmp_dir /\ ~tmp_dir') =>
          \/ pc = "cleanup" /\ sbom_file # None /\ report_file # None
          \/ pc = "get_lockfile" /\ pc' = "failed"
    /\ (pc' = "failed" /\ pc # "get_lockfile") => tmp_dir /\ tmp_dir'

\* C14 as stated: the steps of main happen in the fixed order, the report is
\* written only after the SBOM, ./tmp is removed only after both documents
\* are written, any earlier failure leaves ./tmp in place, and a failed
\* removal still ends the run successfully
C14_Original == [][OrderedStep /\ TmpOnlyRemovedAtEnd]_vars

\* C14, amended: the same order of steps; after lockfile discovery ./tmp is
\* removed only by the final cleanup, once both documents are written, and a
\* failure leaves it in place; only lockfile discovery itself may remove an
\* old ./tmp and fail without one; a failed removal still ends the run
\* successfully
C14_Order == [][OrderedStep /\ TmpRemovedAtEndOrByDiscovery]_vars

\* a run that ended successfully with both documents written and ./tmp still
\* there: the removal failed
C14_Witness ==
    /\ pc = "done"
    /\ result = "ok"
    /\ tmp_dir
    /\ sbom_file # None
    /\ report_file # None

====
